---- MODULE Spec2Model ----
(***************************************************************************)
(* The resumable, checkpointed frame-processing pipeline of the Waymo E2E  *)
(* annotation tool: WaymoE2EPipeline.run / process_frame, the frame        *)
(* iterator of WaymoE2EDatasetLoader, VLMClient.call_vlm and the result    *)
(* and checkpoint files of OutputHandler.                                  *)
(*                                                                         *)
(* One operating-system process runs the pipeline at a time.  The files of *)
(* the output directory survive the process; everything else is lost when  *)
(* the process ends.  The process can be interrupted by the operator       *)
(* (KeyboardInterrupt) or killed.                                          *)
(***************************************************************************)
EXTENDS Integers, Sequences, FiniteSets, TLC

----------------------------------------------------------------------------
(* Bounds of the model *)

\* number of pipeline processes started one after the other on the same
\* output directory
MaxRuns == 3
\* largest max_retries of the configurations explored
MaxRetries == 3
\* largest retry_delay_seconds of the configurations explored
MaxDelay == 2
\* frame names are 1..MaxNames; their order stands for the string order
MaxNames == 2
\* the largest max_frames of the scenarios with a frame limit
MaxLimit == 2

(* Program constants *)

\* the dataset's native rate, the 10 of int(10 / sampling_frequency_hz)
SOURCE_RATE_HZ == 10
\* TrajectoryConfig defaults: 4 s at 4 Hz past, 5 s at 4 Hz future
past_duration_seconds == 4
past_frequency_hz == 4
future_duration_seconds == 5
future_frequency_hz == 4
\* the number of front cameras process_images needs
FRONT_CAMERAS == 3

Names == 1..MaxNames

\* Python's None, as a response text and as max_frames
None == "None"
NO_LIMIT == -1

----------------------------------------------------------------------------
(* The dataset: shard files of raw records *)

\* TrajectoryExtractor.__init__
expected_past_points == past_duration_seconds * past_frequency_hz
expected_future_points == future_duration_seconds * future_frequency_hz

\* A raw record of a shard.  decodable: ParseFromString succeeds; name:
\* frame.context.name; images: the number of front cameras whose image
\* decodes; past/future: the lengths of pos_x, pos_y, pos_z.
Rec(n, d, i, p, f) ==
    [name |-> n, decodable |-> d, images |-> i, past |-> p, future |-> f]

GoodPast == <<expected_past_points, expected_past_points, expected_past_points>>
GoodFuture == <<expected_future_points, expected_future_points, expected_future_points>>

\* a complete frame called n
Good(n) == Rec(n, TRUE, FRONT_CAMERAS, GoodPast, GoodFuture)
\* a frame with a camera image missing
NoImage(n) == Rec(n, TRUE, FRONT_CAMERAS - 1, GoodPast, GoodFuture)
\* a frame with one past point missing (15 of 16)
ShortPast(n) ==
    Rec(n, TRUE, FRONT_CAMERAS,
        <<expected_past_points - 1, expected_past_points - 1, expected_past_points - 1>>,
        GoodFuture)
\* a record that is no E2EDFrame
Undecodable == Rec(1, FALSE, 0, <<0, 0, 0>>, <<0, 0, 0>>)
\* no frame in process
NoFrame == Rec(0, FALSE, 0, <<0, 0, 0>>, <<0, 0, 0>>)

\* the trajectory shapes explored by the validation configurations
PastShapes ==
    { GoodPast,
      <<expected_past_points - 1, expected_past_points - 1, expected_past_points - 1>>,
      <<expected_past_points + 1, expected_past_points + 1, expected_past_points + 1>>,
      <<expected_past_points, expected_past_points - 1, expected_past_points>>,
      <<expected_past_points, expected_past_points, expected_past_points + 1>>,
      <<0, 0, 0>> }
FutureShapes ==
    { GoodFuture,
      <<expected_future_points - 1, expected_future_points - 1, expected_future_points - 1>>,
      <<expected_future_points, expected_future_points + 1, expected_future_points>>,
      <<expected_future_points, expected_future_points, expected_future_points - 1>> }

----------------------------------------------------------------------------
(* Pure functions of the program *)

RECURSIVE Pow2(_)
Pow2(k) == IF k = 0 THEN 1 ELSE 2 * Pow2(k - 1)

Range(s) == { s[i] : i \in DOMAIN s }

Min(S) == CHOOSE x \in S : \A y \in S : x <= y

\* sorted(list(S))
RECURSIVE sorted(_)
sorted(S) == IF S = {} THEN <<>> ELSE <<Min(S)>> \o sorted(S \ {Min(S)})

\* a loader that takes the target rate itself as the interval
sampling_interval_Rate(hz) == hz

\* WaymoE2EDatasetLoader.__init__: int(10 / sampling_frequency_hz)
sampling_interval(hz) == SOURCE_RATE_HZ \div hz

\* load_dataset: the records of the matching shard files, the files taken in
\* sorted path order.  files is a function from paths to record sequences.
RECURSIVE Concat(_, _)
Concat(shards, paths) ==
    IF paths = <<>> THEN <<>>
    ELSE shards[Head(paths)] \o Concat(shards, Tail(paths))

\* a list in the opposite order
RECURSIVE Reversed(_)
Reversed(s) == IF s = <<>> THEN <<>> ELSE Append(Reversed(Tail(s)), Head(s))

\* a loader that takes the files in descending path order
load_dataset_Descending(shards) ==
    Concat(shards, Reversed(sorted(DOMAIN shards)))

load_dataset(shards) == Concat(shards, sorted(DOMAIN shards))

\* ImageProcessor.process_images: a result only with all three front cameras
process_images(fr) == fr.images = FRONT_CAMERAS

\* a validate_frame that compares only the pos_x lengths with the expected
\* numbers of points
validate_frame_XOnly(fr) ==
    /\ fr.past[1] = expected_past_points
    /\ fr.future[1] = expected_future_points

\* TrajectoryExtractor.validate_frame
validate_frame(fr) ==
    LET past_x_len == fr.past[1]
        past_y_len == fr.past[2]
        past_z_len == fr.past[3]
        future_x_len == fr.future[1]
        future_y_len == fr.future[2]
        future_z_len == fr.future[3]
    IN  IF past_x_len # past_y_len \/ past_x_len # past_z_len THEN FALSE
        ELSE IF past_x_len # expected_past_points THEN FALSE
        ELSE IF future_x_len # future_y_len \/ future_x_len # future_z_len THEN FALSE
        ELSE IF future_x_len # expected_future_points THEN FALSE
        ELSE TRUE

----------------------------------------------------------------------------
(* The response texts of the annotation service and VLMClient.parse_response *)

\* the number of object classes _validate_response_structure requires
REQUIRED_OBJECTS == 12

\* A response text is a sequence of tokens: "w" is a word of commentary, "{"
\* and "}" are braces, and every other token is one member of a JSON object
\* (a key with its value).  A member is described by: its key; whether its
\* value supports Python's "in" (a JSON object, array or string does, a number
\* or null does not); classes: how many of the required object classes the
\* value holds; values: the values it gives them; speed, command: what it
\* holds at those keys ("absent" when it does not have the key).
Member(key, container, classes, values, speed, command) ==
    [key |-> key, container |-> container, classes |-> classes,
     values |-> values, speed |-> speed, command |-> command]

CriticalObjects(classes, values) ==
    Member("critical_objects", TRUE, classes, values, "absent", "absent")
MetaBehaviour(speed, command) ==
    Member("meta_behaviour", TRUE, 0, {}, speed, command)

Members ==
    [critical_objects |-> CriticalObjects(REQUIRED_OBJECTS, {"yes", "no"}),
     critical_objects_maybe |->
         CriticalObjects(REQUIRED_OBJECTS, {"yes", "no", "maybe"}),
     critical_objects_short |->
         CriticalObjects(REQUIRED_OBJECTS - 1, {"yes", "no"}),
     critical_objects_number |->
         Member("critical_objects", FALSE, 0, {}, "absent", "absent"),
     explanation |-> Member("explanation", TRUE, 0, {}, "absent", "absent"),
     meta_behaviour |-> MetaBehaviour("keep", "straight"),
     meta_behaviour_fast |-> MetaBehaviour("fast", "straight"),
     meta_behaviour_u_turn |-> MetaBehaviour("keep", "u_turn"),
     meta_behaviour_no_speed |-> MetaBehaviour("absent", "straight"),
     meta_behaviour_no_command |-> MetaBehaviour("keep", "absent"),
     meta_behaviour_null |->
         Member("meta_behaviour", FALSE, 0, {}, "absent", "absent")]

\* a schema-conformant JSON object
ConformantObject == <<"{", "critical_objects", "explanation", "meta_behaviour", "}">>

\* The texts the annotation service can answer with, by name
Texts ==
    [empty |-> <<>>,
     garbage |-> <<"w", "w">>,
     valid |-> ConformantObject,
     commented |-> <<"w">> \o ConformantObject \o <<"w", "w">>,
     braced_comment |-> ConformantObject \o <<"w", "{", "w", "}">>,
     unopened |-> <<"w", "critical_objects", "}", "w">>,
     unclosed |-> <<"w", "{", "critical_objects", "explanation">>,
     reversed |-> <<"}", "w", "{">>,
     invalid_json |-> <<"{", "explanation", "w", "}">>,
     empty_object |-> <<"{", "}">>,
     no_explanation |-> <<"{", "critical_objects", "meta_behaviour", "}">>,
     short_objects |->
         <<"{", "critical_objects_short", "explanation", "meta_behaviour", "}">>,
     no_speed |->
         <<"{", "critical_objects", "explanation", "meta_behaviour_no_speed", "}">>,
     no_command |->
         <<"{", "critical_objects", "explanation", "meta_behaviour_no_command", "}">>,
     maybe |->
         <<"{", "critical_objects_maybe", "explanation", "meta_behaviour", "}">>,
     fast |->
         <<"{", "critical_objects", "explanation", "meta_behaviour_fast", "}">>,
     u_turn |->
         <<"{", "critical_objects", "explanation", "meta_behaviour_u_turn", "}">>,
     number_objects |->
         <<"{", "critical_objects_number", "explanation", "meta_behaviour", "}">>,
     null_meta |->
         <<"{", "critical_objects", "explanation", "meta_behaviour_null", "}">>]

\* the response text of a name; "" names the empty text
Text(name) == IF name = "" THEN Texts.empty ELSE Texts[name]

Responses == {""} \cup (DOMAIN Texts \ {"empty"})

\* a find that takes the start of the text for the first occurrence
find_Start(text, ch) == 0

\* str.find: the index (from 0) of the first ch in text, -1 when there is none
find(text, ch) ==
    IF \E i \in 1..Len(text) : text[i] = ch
        THEN Min({ i \in 1..Len(text) : text[i] = ch }) - 1
    ELSE -1

\* str.rfind: the index (from 0) of the last ch in text, -1 when there is none
rfind(text, ch) ==
    IF \E i \in 1..Len(text) : text[i] = ch
        THEN -Min({ -i : i \in { j \in 1..Len(text) : text[j] = ch } }) - 1
    ELSE -1

\* text[start:end]
Slice(text, start, end) == SubSeq(text, start + 1, end)

\* json.loads: the dict of a text that is one JSON object, JSONDecodeError
\* for any other text
json_loads(json_str) ==
    IF /\ Len(json_str) >= 2
       /\ json_str[1] = "{" /\ json_str[Len(json_str)] = "}"
       /\ \A i \in 2..(Len(json_str) - 1) : json_str[i] \in DOMAIN Members
        THEN [kind |-> "dict",
              members |-> SubSeq(json_str, 2, Len(json_str) - 1)]
    ELSE [kind |-> "JSONDecodeError"]

\* key in dict
HasKey(dict, key) ==
    \E i \in 1..Len(dict.members) : Members[dict.members[i]].key = key

\* dict.get(key): the member of that key (the last one of the text)
Get(dict, key) ==
    LET at == { i \in 1..Len(dict.members) : Members[dict.members[i]].key = key }
    IN  Members[dict.members[-Min({ -i : i \in at })]]

\* VLMClient._validate_response_structure: "True", "False", or "TypeError"
\* when an "in" test is made on a value that is no container
validate_response_structure(response) ==
    IF ~(/\ HasKey(response, "critical_objects")
         /\ HasKey(response, "explanation")
         /\ HasKey(response, "meta_behaviour")) THEN "False"
    ELSE IF ~Get(response, "critical_objects").container THEN "TypeError"
    ELSE IF Get(response, "critical_objects").classes # REQUIRED_OBJECTS
        THEN "False"
    ELSE IF ~Get(response, "meta_behaviour").container THEN "TypeError"
    ELSE IF \/ Get(response, "meta_behaviour").speed = "absent"
            \/ Get(response, "meta_behaviour").command = "absent" THEN "False"
    ELSE "True"

\* parse_response returns None
ReturnsNone == [kind |-> "None"]

\* VLMClient.parse_response on the text of that name: the parsed dict, None,
\* or the TypeError that its "except json.JSONDecodeError" lets through
parse_response(name) ==
    LET response_text == Text(name)
        start_idx == find(response_text, "{")
        end_idx == rfind(response_text, "}") + 1
        json_str == Slice(response_text, start_idx, end_idx)
        parsed == json_loads(json_str)
    IN  IF start_idx = -1 \/ end_idx = 0 THEN ReturnsNone
        ELSE IF parsed.kind = "JSONDecodeError" THEN ReturnsNone
        ELSE IF validate_response_structure(parsed) = "TypeError"
            THEN [kind |-> "TypeError"]
        ELSE IF validate_response_structure(parsed) = "False" THEN ReturnsNone
        ELSE parsed

----------------------------------------------------------------------------
(* Files of the output directory *)

Absent == [state |-> "absent"]
\* a file opened for writing whose json.dump has not finished
Partial == [state |-> "partial"]

\* the checkpoint object save_checkpoint serialises
CheckpointOf(S) ==
    [state |-> "complete",
     total_processed |-> Cardinality(S),
     processed_frames |-> sorted(S)]

\* the result file save_result writes for a frame in run r
ResultOf(n, r) == [state |-> "complete", frame_name |-> n, written_in_run |-> r]

\* A checkpoint file the program did not write.  content: "not_json" (json.load
\* raises), "array" (the JSON value is no object: .get raises AttributeError),
\* "no_key" (an object without processed_frames), "null" and "number"
\* (processed_frames is no iterable: set() raises TypeError), "mapping"
\* (processed_frames is a JSON object whose keys are the names).
Foreign(content, names) ==
    [state |-> "foreign", content |-> content, names |-> names]

ForeignCheckpoints ==
    { Foreign(c, {}) : c \in {"not_json", "array", "no_key", "null", "number"} }
        \cup { Foreign("mapping", S) : S \in SUBSET {1} }

\* a load_checkpoint that reads a key save_checkpoint does not write
load_checkpoint_WrongKey(file) == {}

\* OutputHandler.load_checkpoint on the file at the checkpoint path: set() of
\* checkpoint.get("processed_frames", []), and set() on every exception
load_checkpoint(file) ==
    IF file.state = "absent" THEN {}
    ELSE IF file.state = "partial" THEN {}
    ELSE IF file.state = "foreign" THEN
        IF file.content = "mapping" THEN file.names ELSE {}
    ELSE Range(file.processed_frames)

----------------------------------------------------------------------------
(* The frame iterator *)

\* Python truth of max_frames: None and 0 both mean "no limit"
Truthy(max_frames) == max_frames # NO_LIMIT /\ max_frames # 0

\* get_frame_iterator resumed at raw position pos of the stream with
\* frame_count frames yielded so far: the next frame it yields, or the end of
\* the iteration, or the error it raises.  sample_frames_at_target_frequency
\* walks every raw record and passes on those with pos % interval = 0; the
\* max_frames test comes before the decode; an undecodable record is dropped.
RECURSIVE IterNext(_, _, _, _, _)
IterNext(recs, interval, max_frames, pos, count) ==
    IF pos >= Len(recs) THEN [kind |-> "exhausted"]
    ELSE IF interval = 0 THEN [kind |-> "error"]
    ELSE IF pos % interval # 0
        THEN IterNext(recs, interval, max_frames, pos + 1, count)
    ELSE IF Truthy(max_frames) /\ count >= max_frames THEN [kind |-> "exhausted"]
    ELSE IF recs[pos + 1].decodable
        THEN [kind |-> "frame", frame |-> recs[pos + 1], index |-> pos]
    ELSE IterNext(recs, interval, max_frames, pos + 1, count)

----------------------------------------------------------------------------
(* State *)

VARIABLES
    \* the environment, fixed during a behaviour
    files,              \* the dataset: shard path -> records
    config,             \* the configuration
    answers,            \* per raw record: how the annotation service answers for it
    io_faults,          \* whether writes to the output directory can fail
    \* the output directory
    checkpoint_file,    \* the file at checkpoint_path
    temp_file,          \* the file at checkpoint_path.with_suffix('.tmp')
    results,            \* results_dir: frame name -> file
    summary,            \* summary.json as the current or last run wrote it
    \* the running process
    pc,                 \* where the process is; "idle" when there is none
    resume,             \* the resume argument of run
    finalizing,         \* in the finally block of run
    processed_frames_set,
    processed_frames,   \* counters of the pipeline object
    skipped_frames,
    failed_frames,
    frame_index,
    global_index,       \* raw records consumed by sample_frames_at_target_frequency
    frame_count,        \* frames yielded by get_frame_iterator
    visited,            \* raw positions of the frames the loop has been given
    handed,             \* how many frames the loop has passed to process_frame
    frame,              \* the frame in process; None between frames
    frame_pos,          \* the raw position of that frame
    attempt,            \* call_vlm's loop variable
    response,           \* what call_vlm returned
    \* observation
    run_no,             \* processes started so far
    end_kind,           \* how the loop of the current or last run ended
    attempts,           \* requests sent to the service by the current call_vlm
    waits,              \* backoff waits of the current call_vlm, in order
    prev                \* how the run before the current one ended

disk == <<checkpoint_file, temp_file, results, summary>>
environment == <<files, config, answers, io_faults>>
counters == <<processed_frames, skipped_frames, failed_frames>>
iterator == <<global_index, frame_count, visited, handed>>
call == <<attempt, response, attempts, waits>>
vars == <<files, config, answers, io_faults, checkpoint_file, temp_file,
          results, summary, pc, resume, finalizing, processed_frames_set,
          processed_frames, skipped_frames, failed_frames, frame_index,
          global_index, frame_count, visited, handed, frame, frame_pos,
          attempt, response,
          run_no, end_kind, attempts, waits, prev>>

\* the record stream of the dataset, empty when no shard file matches
dataset == load_dataset(files)

\* what a starting run keeps of the run before it: how that run ended and,
\* for a run whose frame source was exhausted, whether its summary counts
\* failed frames
PreviousRun ==
    [end_kind |-> end_kind,
     failed |-> end_kind = "completed" /\ summary.failed_frames > 0]

NoPreviousRun == [end_kind |-> "none", failed |-> FALSE]

\* the values of the process's variables when there is no process
ProcessGone ==
    /\ pc' = "idle"
    /\ resume' = FALSE
    /\ finalizing' = FALSE
    /\ processed_frames_set' = {}
    /\ processed_frames' = 0
    /\ skipped_frames' = 0
    /\ failed_frames' = 0
    /\ frame_index' = 0
    /\ global_index' = 0
    /\ frame_count' = 0
    /\ visited' = <<>>
    /\ handed' = 0
    /\ frame' = NoFrame
    /\ frame_pos' = 0
    /\ attempt' = 0
    /\ response' = None
    /\ attempts' = 0
    /\ waits' = <<>>

----------------------------------------------------------------------------
(* WaymoE2EPipeline.run *)

\* main() starts a process; run(resume) loads the checkpoint when resuming
\* and creates the frame iterator
StartRun ==
    /\ pc = "idle"
    /\ run_no < MaxRuns
    /\ \E r \in BOOLEAN :
        /\ resume' = r
        /\ processed_frames_set' =
               IF r THEN load_checkpoint(checkpoint_file) ELSE {}
    /\ prev' = PreviousRun
    /\ summary' = Absent
    /\ run_no' = run_no + 1
    /\ end_kind' = "none"
    /\ pc' = "loop"
    /\ UNCHANGED <<environment, checkpoint_file, temp_file, results,
                   finalizing, counters, frame_index, iterator, frame,
                   frame_pos, call>>

\* what the iterator gives at the head of the for loop
Fetched ==
    IF DOMAIN files = {} THEN [kind |-> "error"]
    ELSE IterNext(dataset, sampling_interval(config.sampling_frequency_hz),
                  config.max_frames, global_index, frame_count)

\* a finally block that goes to generate_summary without save_checkpoint
EnterFinally_NoCheckpoint(kind) ==
    /\ end_kind' = kind
    /\ finalizing' = TRUE
    /\ pc' = "summary"
    /\ global_index' = 0
    /\ frame_count' = 0
    /\ visited' = <<>>
    /\ handed' = handed
    /\ frame' = NoFrame
    /\ frame_pos' = 0
    /\ attempt' = 0
    /\ response' = None
    /\ attempts' = 0
    /\ waits' = <<>>

\* the loop ends and control passes to the finally block
\* (the iterator, the frame and call_vlm's locals are dead from here on)
EnterFinally(kind) ==
    /\ end_kind' = kind
    /\ finalizing' = TRUE
    /\ pc' = "sc_open"
    /\ global_index' = 0
    /\ frame_count' = 0
    /\ visited' = <<>>
    /\ handed' = handed
    /\ frame' = NoFrame
    /\ frame_pos' = 0
    /\ attempt' = 0
    /\ response' = None
    /\ attempts' = 0
    /\ waits' = <<>>

\* the iterator raises: no shard file matches (FileNotFoundError), or the
\* sampling interval is 0 (ZeroDivisionError); run's except Exception logs it
IterError ==
    /\ pc = "loop"
    /\ Fetched.kind = "error"
    /\ EnterFinally("error")
    /\ UNCHANGED <<environment, disk, resume, processed_frames_set, counters,
                   frame_index, run_no, prev>>

\* the frame source is exhausted (or max_frames is reached)
IterExhausted ==
    /\ pc = "loop"
    /\ Fetched.kind = "exhausted"
    /\ EnterFinally("completed")
    /\ UNCHANGED <<environment, disk, resume, processed_frames_set, counters,
                   frame_index, run_no, prev>>

\* a resume test that never finds a frame in the loaded checkpoint
AlreadyProcessed_Never(name) == FALSE

\* a resume test by position: the first frames, as many as the set holds
AlreadyProcessed_ByIndex(name) ==
    resume /\ frame_index < Cardinality(processed_frames_set)

\* "if resume and frame_name in processed_frames_set"
AlreadyProcessed(name) == resume /\ name \in processed_frames_set

\* a frame already in the loaded checkpoint is skipped: frame_index += 1
ResumeSkip ==
    /\ pc = "loop"
    /\ Fetched.kind = "frame"
    /\ AlreadyProcessed(Fetched.frame.name)
    /\ global_index' = Fetched.index + 1
    /\ frame_count' = frame_count + 1
    /\ visited' = Append(visited, Fetched.index)
    /\ handed' = handed
    /\ frame_index' = frame_index + 1
    /\ UNCHANGED <<environment, disk, pc, resume, finalizing,
                   processed_frames_set, counters, frame, frame_pos, call,
                   run_no, end_kind, prev>>

\* any other frame is handed to process_frame
BeginFrame ==
    /\ pc = "loop"
    /\ Fetched.kind = "frame"
    /\ ~AlreadyProcessed(Fetched.frame.name)
    /\ global_index' = Fetched.index + 1
    /\ frame_count' = frame_count + 1
    /\ visited' = Append(visited, Fetched.index)
    /\ handed' = handed + 1
    /\ frame' = Fetched.frame
    /\ frame_pos' = Fetched.index + 1
    /\ pc' = "process"
    /\ UNCHANGED <<environment, disk, resume, finalizing, processed_frames_set,
                   counters, frame_index, call, run_no, end_kind,
                   prev>>

----------------------------------------------------------------------------
(* WaymoE2EPipeline.process_frame *)

\* a run that adds the frame name whatever process_frame returned
Added_Always(success, S, name) == S \cup {name}

\* a run that adds the frame name when process_frame returned False
Added_OnFailure(success, S, name) == IF success THEN S ELSE S \cup {name}

\* a run that keeps only the name of the last processed frame
Added_OnlyLast(success, S, name) == IF success THEN {name} ELSE S

\* run: "if success: processed_frames_set.add(frame_name)"
Added(success, S, name) == IF success THEN S \cup {name} ELSE S

\* a process_frame that starts the annotation call again
ReturnFalse_Retry ==
    /\ pc' = "call_vlm"
    /\ UNCHANGED <<processed_frames_set, processed_frames, finalizing, end_kind>>

\* a process_frame that lets the error escape: run's except Exception ends
\* the loop
ReturnFalse_Raises ==
    /\ pc' = "sc_open"
    /\ finalizing' = TRUE
    /\ end_kind' = "error"
    /\ UNCHANGED <<processed_frames_set, processed_frames>>

\* process_frame returns False (its own handlers have dealt with the error):
\* run adds nothing and goes on to the checkpoint test
ReturnFalse ==
    /\ pc' = "ckpt_check"
    /\ processed_frames_set' = Added(FALSE, processed_frames_set, frame.name)
    /\ UNCHANGED <<processed_frames, finalizing, end_kind>>

\* process_images gives nothing: skipped
ImagesFail ==
    /\ pc = "process"
    /\ ~process_images(frame)
    /\ skipped_frames' = skipped_frames + 1
    /\ failed_frames' = failed_frames
    /\ ReturnFalse
    /\ UNCHANGED <<environment, disk, resume, frame_index, iterator, frame,
                   frame_pos, call, run_no, prev>>

\* extract_all raises ValueError: skipped
TrajectoryInvalid ==
    /\ pc = "process"
    /\ process_images(frame)
    /\ ~validate_frame(frame)
    /\ skipped_frames' = skipped_frames + 1
    /\ failed_frames' = failed_frames
    /\ ReturnFalse
    /\ UNCHANGED <<environment, disk, resume, frame_index, iterator, frame,
                   frame_pos, call, run_no, prev>>

\* images and trajectories are there: the prompt is built and call_vlm entered
Extracted ==
    /\ pc = "process"
    /\ process_images(frame)
    /\ validate_frame(frame)
    /\ attempt' = 0
    /\ attempts' = 0
    /\ waits' = <<>>
    /\ response' = None
    /\ pc' = "call_vlm"
    /\ UNCHANGED <<environment, disk, resume, finalizing, processed_frames_set,
                   counters, frame_index, iterator, frame, frame_pos, run_no,
                   end_kind, prev>>

----------------------------------------------------------------------------
(* VLMClient.call_vlm *)

\* how the service treats the frame in process: "any" leaves every attempt
\* free to fail or to answer with one of FreeTexts (an empty text, a text
\* without a JSON object, a schema-conformant object); the name of a text
\* answers every attempt with that text;
\* "down" fails every attempt with a retryable error (network, timeout,
\* server side); "fatal" fails every attempt with a fatal one (malformed
\* request, authentication).  call_vlm_with_oneapi raises an exception for
\* either.
Answer == answers[frame_pos]
FreeTexts == {"", "garbage", "valid"}
CanAnswer(text) == (Answer = "any" /\ text \in FreeTexts) \/ Answer = text
CanFail == Answer \in {"any", "down", "fatal"}

\* a loop over range(max_retries + 1)
AllowedAttempts_OneMore == config.max_retries + 1

\* a delay of retry_delay_seconds * 2 ** (attempt + 1)
BackoffDelay_OneIndexed(k) == config.retry_delay_seconds * Pow2(k + 1)

\* range(self.max_retries): the attempts the loop allows
AllowedAttempts == config.max_retries

\* delay = self.retry_delay_seconds * (2 ** attempt)
BackoffDelay(k) == config.retry_delay_seconds * Pow2(k)

\* whether the except branch sleeps and tries again: attempt < max_retries - 1
RetriesLeft(k) == k < config.max_retries - 1

\* call_vlm returns to process_frame
ReturnFromCall(text) ==
    /\ response' = text
    /\ pc' = "vlm_returned"

\* an attempt succeeds: return response
AttemptSucceeds ==
    /\ pc = "call_vlm"
    /\ attempt < AllowedAttempts
    /\ \E text \in Responses :
        /\ CanAnswer(text)
        /\ ReturnFromCall(text)
    /\ attempts' = attempts + 1
    /\ UNCHANGED <<environment, disk, resume, finalizing, processed_frames_set,
                   counters, frame_index, iterator, frame, frame_pos, attempt,
                   waits, run_no, end_kind, prev>>

\* an attempt raises and another is allowed: time.sleep(delay), next attempt
AttemptFailsRetry ==
    /\ pc = "call_vlm"
    /\ attempt < AllowedAttempts
    /\ CanFail
    /\ RetriesLeft(attempt)
    /\ attempts' = attempts + 1
    /\ waits' = Append(waits, BackoffDelay(attempt))
    /\ attempt' = attempt + 1
    /\ UNCHANGED <<environment, disk, pc, resume, finalizing,
                   processed_frames_set, counters, frame_index, iterator,
                   frame, frame_pos, response, run_no, end_kind,
                   prev>>

\* the last allowed attempt raises: return None
AttemptFailsLast ==
    /\ pc = "call_vlm"
    /\ attempt < AllowedAttempts
    /\ CanFail
    /\ ~RetriesLeft(attempt)
    /\ attempts' = attempts + 1
    /\ ReturnFromCall(None)
    /\ UNCHANGED <<environment, disk, resume, finalizing, processed_frames_set,
                   counters, frame_index, iterator, frame, frame_pos, attempt,
                   waits, run_no, end_kind, prev>>

\* range(max_retries) is empty: the function ends without a return (None)
NoAttempt ==
    /\ pc = "call_vlm"
    /\ ~(attempt < AllowedAttempts)
    /\ ReturnFromCall(None)
    /\ UNCHANGED <<environment, disk, resume, finalizing, processed_frames_set,
                   counters, frame_index, iterator, frame, frame_pos, attempt,
                   attempts, waits, run_no, end_kind, prev>>

----------------------------------------------------------------------------
(* process_frame, after the call *)

ForgetCall ==
    /\ attempt' = 0
    /\ response' = None
    /\ attempts' = 0
    /\ waits' = <<>>

\* "if not vlm_response_text": None or the empty text counts as failed
CallFailed ==
    /\ pc = "vlm_returned"
    /\ response \in {None, ""}
    /\ failed_frames' = failed_frames + 1
    /\ skipped_frames' = skipped_frames
    /\ ReturnFalse
    /\ ForgetCall
    /\ UNCHANGED <<environment, disk, resume, frame_index, iterator, frame,
                   frame_pos, run_no, prev>>

\* parse_response gives None: failed
ParseFailed ==
    /\ pc = "vlm_returned"
    /\ response \notin {None, ""}
    /\ parse_response(response) = ReturnsNone
    /\ failed_frames' = failed_frames + 1
    /\ skipped_frames' = skipped_frames
    /\ ReturnFalse
    /\ ForgetCall
    /\ UNCHANGED <<environment, disk, resume, frame_index, iterator, frame,
                   frame_pos, run_no, prev>>

\* a TypeError leaves parse_response: process_frame's except Exception counts
\* the frame as failed
ParseRaises ==
    /\ pc = "vlm_returned"
    /\ response \notin {None, ""}
    /\ parse_response(response).kind = "TypeError"
    /\ failed_frames' = failed_frames + 1
    /\ skipped_frames' = skipped_frames
    /\ ReturnFalse
    /\ ForgetCall
    /\ UNCHANGED <<environment, disk, resume, frame_index, iterator, frame,
                   frame_pos, run_no, prev>>

\* the response is parsed: save_result is entered
Parsed ==
    /\ pc = "vlm_returned"
    /\ response \notin {None, ""}
    /\ parse_response(response).kind = "dict"
    /\ pc' = "save_open"
    /\ ForgetCall
    /\ UNCHANGED <<environment, disk, resume, finalizing, processed_frames_set,
                   counters, frame_index, iterator, frame, frame_pos, run_no,
                   end_kind, prev>>

----------------------------------------------------------------------------
(* OutputHandler.save_result *)

\* open(output_file, 'w') creates or truncates results/<frame_name>.json
SaveResultOpen ==
    /\ pc = "save_open"
    /\ results' = [results EXCEPT ![frame.name] = Partial]
    /\ pc' = "save_write"
    /\ UNCHANGED <<environment, checkpoint_file, temp_file, summary, resume,
                   finalizing, processed_frames_set, counters, frame_index,
                   iterator, frame, frame_pos, call, run_no, end_kind, prev>>

\* json.dump finishes and the file is closed
SaveResultWrite ==
    /\ pc = "save_write"
    /\ results' = [results EXCEPT ![frame.name] = ResultOf(frame.name, run_no)]
    /\ pc' = "saved"
    /\ UNCHANGED <<environment, checkpoint_file, temp_file, summary, resume,
                   finalizing, processed_frames_set, counters, frame_index,
                   iterator, frame, frame_pos, call, run_no, end_kind, prev>>

\* open or json.dump raises; save_result re-raises and process_frame's
\* except Exception counts the frame as failed
SaveResultError ==
    /\ pc \in {"save_open", "save_write"}
    /\ io_faults
    /\ failed_frames' = failed_frames + 1
    /\ skipped_frames' = skipped_frames
    /\ ReturnFalse
    /\ UNCHANGED <<environment, disk, resume, frame_index, iterator, frame,
                   frame_pos, call, run_no, prev>>

\* self.processed_frames += 1; return True
IncProcessed ==
    /\ pc = "saved"
    /\ processed_frames' = processed_frames + 1
    /\ pc' = "ret_true"
    /\ UNCHANGED <<environment, disk, resume, finalizing, processed_frames_set,
                   skipped_frames, failed_frames, frame_index, iterator, frame,
                   frame_pos, call, run_no, end_kind, prev>>

\* run: if success: processed_frames_set.add(frame_name)
AddProcessed ==
    /\ pc = "ret_true"
    /\ processed_frames_set' = Added(TRUE, processed_frames_set, frame.name)
    /\ pc' = "ckpt_check"
    /\ UNCHANGED <<environment, disk, resume, finalizing, counters,
                   frame_index, iterator, frame, frame_pos, call, run_no,
                   end_kind, prev>>

----------------------------------------------------------------------------
(* The periodic checkpoint and OutputHandler.save_checkpoint *)

\* (frame_index + 1) % checkpoint_interval == 0
CheckpointDue == (frame_index + 1) % config.checkpoint_interval = 0

\* frame_index += 1 and back to the head of the loop
NextFrame ==
    /\ frame_index' = frame_index + 1
    /\ frame' = NoFrame
    /\ frame_pos' = 0
    /\ pc' = "loop"

\* no checkpoint is due after this frame
NextIteration ==
    /\ pc = "ckpt_check"
    /\ ~CheckpointDue
    /\ NextFrame
    /\ UNCHANGED <<environment, disk, resume, finalizing, processed_frames_set,
                   counters, iterator, call, run_no, end_kind, prev>>

\* a checkpoint is due: save_checkpoint(processed_frames_set) is entered
PeriodicCheckpoint ==
    /\ pc = "ckpt_check"
    /\ CheckpointDue
    /\ pc' = "sc_open"
    /\ UNCHANGED <<environment, disk, resume, finalizing, processed_frames_set,
                   counters, frame_index, iterator, frame, frame_pos, call,
                   run_no, end_kind, prev>>

\* a save_checkpoint that opens the checkpoint path itself
WritesInPlace == FALSE

\* the path save_checkpoint opens for writing: the temporary file
WritesToTemp == TRUE

\* open(temp_path, 'w') creates or truncates the temporary file
SaveCheckpointOpen ==
    /\ pc = "sc_open"
    /\ IF WritesToTemp
       THEN temp_file' = Partial /\ UNCHANGED checkpoint_file
       ELSE checkpoint_file' = Partial /\ UNCHANGED temp_file
    /\ pc' = "sc_write"
    /\ UNCHANGED <<environment, results, summary, resume, finalizing,
                   processed_frames_set, counters, frame_index, iterator,
                   frame, frame_pos, call, run_no, end_kind, prev>>

\* json.dump(checkpoint) finishes and the file is closed
SaveCheckpointWrite ==
    /\ pc = "sc_write"
    /\ IF WritesToTemp
       THEN temp_file' = CheckpointOf(processed_frames_set)
            /\ UNCHANGED checkpoint_file
       ELSE checkpoint_file' = CheckpointOf(processed_frames_set)
            /\ UNCHANGED temp_file
    /\ pc' = "sc_rename"
    /\ UNCHANGED <<environment, results, summary, resume, finalizing,
                   processed_frames_set, counters, frame_index, iterator,
                   frame, frame_pos, call, run_no, end_kind, prev>>

\* temp_path.replace(checkpoint_path); save_checkpoint returns, to the loop
\* (frame_index += 1) or, in the finally block, to generate_summary
SaveCheckpointRename ==
    /\ pc = "sc_rename"
    /\ IF WritesToTemp
       THEN checkpoint_file' = temp_file /\ temp_file' = Absent
       ELSE UNCHANGED <<checkpoint_file, temp_file>>
    /\ IF finalizing
       THEN pc' = "summary" /\ UNCHANGED <<frame_index, frame, frame_pos>>
       ELSE NextFrame
    /\ UNCHANGED <<environment, results, summary, resume, finalizing,
                   processed_frames_set, counters, iterator, call, run_no,
                   end_kind, prev>>

\* open, json.dump or replace raises in the periodic save_checkpoint; it
\* re-raises and run's except Exception logs the error and ends the loop
PeriodicCheckpointError ==
    /\ pc \in {"sc_open", "sc_write", "sc_rename"}
    /\ io_faults
    /\ ~finalizing
    /\ EnterFinally("io_error")
    /\ UNCHANGED <<environment, disk, resume, processed_frames_set, counters,
                   frame_index, run_no, prev>>

\* the same in the save_checkpoint of the finally block: the exception leaves
\* run and main, generate_summary is not reached
FinalCheckpointError ==
    /\ pc \in {"sc_open", "sc_write", "sc_rename"}
    /\ io_faults
    /\ finalizing
    /\ ProcessGone
    /\ end_kind' = "raised"
    /\ UNCHANGED <<environment, disk, run_no, prev>>

----------------------------------------------------------------------------
(* The end of run *)

\* the summary generate_summary writes
SummaryOf(total, processed, skipped, failed) ==
    [state |-> "complete", total_frames |-> total,
     processed_frames |-> processed, skipped_frames |-> skipped,
     failed_frames |-> failed]

\* generate_summary; run returns and the process ends
GenerateSummary ==
    /\ pc = "summary"
    /\ summary' = SummaryOf(processed_frames + skipped_frames + failed_frames,
                            processed_frames, skipped_frames, failed_frames)
    /\ ProcessGone
    /\ UNCHANGED <<environment, checkpoint_file, temp_file, results, run_no,
                   end_kind, prev>>

\* the operator's interrupt: KeyboardInterrupt is raised wherever the process
\* is inside the try block.  No "except Exception" on the way catches it, so
\* it reaches run's "except KeyboardInterrupt" and the finally block.
Interrupt ==
    /\ pc # "idle"
    /\ ~finalizing
    /\ EnterFinally("interrupted")
    /\ UNCHANGED <<environment, disk, resume, processed_frames_set, counters,
                   frame_index, run_no, prev>>

\* a KeyboardInterrupt raised inside the finally block is caught by nothing:
\* it leaves run and main
InterruptFinalizing ==
    /\ pc # "idle"
    /\ finalizing
    /\ ProcessGone
    /\ end_kind' = "interrupted_twice"
    /\ UNCHANGED <<environment, disk, run_no, prev>>

\* the process is killed: nothing more is executed
Kill ==
    /\ pc # "idle"
    /\ ProcessGone
    /\ end_kind' = "killed"
    /\ UNCHANGED <<environment, disk, run_no, prev>>

----------------------------------------------------------------------------
(* Configurations and datasets explored *)

Cfg(hz, retries, delay, interval, limit) ==
    [sampling_frequency_hz |-> hz, max_retries |-> retries,
     retry_delay_seconds |-> delay, checkpoint_interval |-> interval,
     max_frames |-> limit]

\* a dataset of one shard file
OneShard(recs) == [p \in {1} |-> recs]
\* a dataset of two shard files, listed in either order
TwoShards(a, b) == [p \in {1, 2} |-> IF p = 1 THEN a ELSE b]

Scenario(f, c, a, io) ==
    [files |-> f, config |-> c, answers |-> a, io_faults |-> io]

\* every frame annotated freely
Free(recs) == [i \in 1..Len(recs) |-> "any"]

\* the kinds of record of the pipeline scenarios
Kinds == { Good(n) : n \in Names } \cup {ShortPast(1), NoImage(1), Undecodable}

\* runs over two records, every attempt free
PipelineScenarios ==
    { Scenario(OneShard(<<a, b>>), Cfg(SOURCE_RATE_HZ, 2, 1, ci, NO_LIMIT),
               Free(<<a, b>>), FALSE) :
        a \in Kinds, b \in Kinds, ci \in 1..2 }

\* the same with result writes that can fail
FaultScenarios ==
    { Scenario(OneShard(<<Good(1), Good(2)>>),
               Cfg(SOURCE_RATE_HZ, 2, 1, ci, NO_LIMIT),
               Free(<<Good(1), Good(2)>>), TRUE) : ci \in 1..2 }

\* a service whose answer depends on the frame alone: every request for the
\* frame gets a schema-conformant answer, or every request for it fails
Fixed(recs) ==
    { a \in [1..Len(recs) -> {"valid", "down"}] :
        \A i \in 1..Len(recs) :
            ~(recs[i].decodable /\ process_images(recs[i]) /\ validate_frame(recs[i]))
                => a[i] = "down" }

DeterministicScenarios ==
    { Scenario(OneShard(<<a, b>>), Cfg(SOURCE_RATE_HZ, 2, 1, ci, NO_LIMIT),
               ans, FALSE) :
        <<a, b, ans>> \in { <<x, y, z>> \in Kinds \X Kinds \X [1..2 -> {"valid", "down"}] :
                             z \in Fixed(<<x, y>>) },
        ci \in 1..2 }

\* one complete frame under every retry budget and base delay, the service
\* free or rejecting every request with a fatal error
RetryScenarios ==
    { Scenario(OneShard(<<Good(1)>>),
               Cfg(SOURCE_RATE_HZ, retries, delay, 1, NO_LIMIT),
               <<a>>, FALSE) :
        retries \in 0..MaxRetries, delay \in 1..MaxDelay,
        a \in {"any", "fatal"} }

\* one frame of every trajectory shape, with and without its images
ValidationScenarios ==
    { Scenario(OneShard(<<Rec(1, TRUE, i, p, f)>>),
               Cfg(SOURCE_RATE_HZ, 1, 1, 1, NO_LIMIT),
               Free(<<Good(1)>>), FALSE) :
        i \in {FRONT_CAMERAS - 1, FRONT_CAMERAS}, p \in PastShapes,
        f \in FutureShapes }

\* a dataset of three shard files
ThreeShards(a, b, c) ==
    [p \in {1, 2, 3} |-> IF p = 1 THEN a ELSE IF p = 2 THEN b ELSE c]

\* two and three shard files sampled at every second record, the shard
\* boundaries at even and at odd positions, and no shard file at all
ShardScenarios ==
    { Scenario(TwoShards(<<Good(2), Good(1)>>, <<Good(1), Good(2)>>),
               Cfg(SOURCE_RATE_HZ \div 2, 1, 1, 1, NO_LIMIT),
               [i \in 1..4 |-> "any"], FALSE),
      Scenario(ThreeShards(<<Good(1)>>, <<Good(2)>>, <<Good(1)>>),
               Cfg(SOURCE_RATE_HZ \div 2, 1, 1, 1, NO_LIMIT),
               [i \in 1..3 |-> "any"], FALSE),
      Scenario([p \in {} |-> <<>>],
               Cfg(SOURCE_RATE_HZ, 1, 1, 1, NO_LIMIT), <<>>, FALSE) }

\* one complete frame, every request for it answered with the same text
ResponseScenarios ==
    { Scenario(OneShard(<<Good(1)>>), Cfg(SOURCE_RATE_HZ, 2, 1, 1, NO_LIMIT),
               <<text>>, FALSE) : text \in Responses }

\* runs with a frame limit (main passes --max-frames on to the
\* configuration), over two complete frames with and without an undecodable
\* record before them
LimitScenarios ==
    { Scenario(OneShard(recs), Cfg(SOURCE_RATE_HZ, 1, 1, 1, limit),
               [i \in 1..Len(recs) |-> "valid"], FALSE) :
        recs \in { <<Good(1), Good(2)>>, <<Undecodable, Good(1), Good(2)>> },
        limit \in 0..MaxLimit }

\* a sampling frequency above the rate of the source
RateScenarios ==
    { Scenario(OneShard(<<Good(1), Good(2)>>),
               Cfg(SOURCE_RATE_HZ + 1, 1, 1, 1, NO_LIMIT),
               <<"valid", "valid">>, FALSE) }

Scenarios ==
    PipelineScenarios \cup FaultScenarios \cup DeterministicScenarios
        \cup RetryScenarios \cup ValidationScenarios \cup ShardScenarios
        \cup ResponseScenarios \cup LimitScenarios \cup RateScenarios

\* no process is running and no run has been made
NothingRun ==
    /\ temp_file = Absent
    /\ results = [n \in Names |-> Absent]
    /\ summary = Absent
    /\ pc = "idle"
    /\ resume = FALSE
    /\ finalizing = FALSE
    /\ processed_frames_set = {}
    /\ processed_frames = 0
    /\ skipped_frames = 0
    /\ failed_frames = 0
    /\ frame_index = 0
    /\ global_index = 0
    /\ frame_count = 0
    /\ visited = <<>>
    /\ handed = 0
    /\ frame = NoFrame
    /\ frame_pos = 0
    /\ attempt = 0
    /\ response = None
    /\ run_no = 0
    /\ end_kind = "none"
    /\ attempts = 0
    /\ waits = <<>>
    /\ prev = NoPreviousRun

\* an empty output directory
Init ==
    /\ \E sc \in Scenarios :
        /\ files = sc.files
        /\ config = sc.config
        /\ answers = sc.answers
        /\ io_faults = sc.io_faults
    /\ checkpoint_file = Absent
    /\ NothingRun

\* scenarios for an output directory that holds a checkpoint file the program
\* did not write: frames of every kind with result writes that can fail, a
\* run without retries, an answer validation raises on, and no shard file
FoundScenarios ==
    FaultScenarios
        \cup { Scenario(OneShard(<<a, Good(1)>>),
                        Cfg(SOURCE_RATE_HZ, 2, 1, 1, NO_LIMIT),
                        <<"valid", "valid">>, FALSE) :
                  a \in {ShortPast(1), NoImage(1), Undecodable} }
        \cup { Scenario(OneShard(<<Good(1)>>),
                        Cfg(SOURCE_RATE_HZ, 0, 1, 1, NO_LIMIT), <<"any">>, FALSE),
               Scenario(OneShard(<<Good(1), Good(2)>>),
                        Cfg(SOURCE_RATE_HZ, 1, 1, 2, NO_LIMIT),
                        <<"null_meta", "no_speed">>, FALSE),
               Scenario([p \in {} |-> <<>>],
                        Cfg(SOURCE_RATE_HZ, 1, 1, 1, NO_LIMIT), <<>>, FALSE) }

InitFound ==
    /\ \E sc \in FoundScenarios :
        /\ files = sc.files
        /\ config = sc.config
        /\ answers = sc.answers
        /\ io_faults = sc.io_faults
    /\ checkpoint_file \in ForeignCheckpoints
    /\ NothingRun

Next ==
    \/ StartRun
    \/ IterError
    \/ IterExhausted
    \/ ResumeSkip
    \/ BeginFrame
    \/ ImagesFail
    \/ TrajectoryInvalid
    \/ Extracted
    \/ AttemptSucceeds
    \/ AttemptFailsRetry
    \/ AttemptFailsLast
    \/ NoAttempt
    \/ CallFailed
    \/ ParseFailed
    \/ ParseRaises
    \/ Parsed
    \/ SaveResultOpen
    \/ SaveResultWrite
    \/ SaveResultError
    \/ IncProcessed
    \/ AddProcessed
    \/ NextIteration
    \/ PeriodicCheckpoint
    \/ SaveCheckpointOpen
    \/ SaveCheckpointWrite
    \/ SaveCheckpointRename
    \/ GenerateSummary
    \/ PeriodicCheckpointError
    \/ FinalCheckpointError
    \/ Interrupt
    \/ InterruptFinalizing
    \/ Kill

Spec == Init /\ [][Next]_vars

\* the runs over an output directory with a foreign checkpoint file
SpecFound == InitFound /\ [][Next]_vars

\* the exit status of the last process: main returns after run (status 0)
\* unless an exception left run or the process was killed
exit_code ==
    IF end_kind \in {"completed", "interrupted", "error", "io_error"} THEN 0
    ELSE 1

----------------------------------------------------------------------------
(* Properties *)

\* positions inside call_vlm and between its return and the end of save_result
CallPcs == {"call_vlm", "vlm_returned"}
SavePcs == {"save_open", "save_write", "saved"}

\* the frame names with a file in the results directory
ResultNames == { n \in Names : results[n].state # "absent" }

\* a run with resume=True that follows a run whose frame source was exhausted
ResumedAfterCompletion == resume /\ prev.end_kind = "completed"

\* during such a run: call_vlm is not called, no result file changes and the
\* processed_frames set of the checkpoint stays what the first run left
Idempotent ==
    /\ pc' \notin CallPcs
    /\ results' = results
    /\ load_checkpoint(checkpoint_file') = load_checkpoint(checkpoint_file)

\* C1 as stated: resume idempotence after a completed run, whatever the
\* outcomes of the first run's frames (processed, skipped or failed): the
\* second run calls call_vlm zero times and leaves the processed_frames set and
\* the result files as the first run left them.
C1_ResumeIdempotenceAnyOutcome ==
    [][ResumedAfterCompletion => Idempotent]_vars

\* C1, amended: resume idempotence after a completed run none of whose frames
\* ended as failed (each was processed, or skipped by extraction): the second
\* run calls call_vlm zero times and leaves the processed_frames set and the
\* result files as the first run left them.
C1_ResumeIdempotence ==
    [][(ResumedAfterCompletion /\ ~prev.failed) => Idempotent]_vars

\* a resumed run after a completed run with a processed and a skipped frame
\* has passed over both and reached its own end
C1_Witness ==
    /\ ResumedAfterCompletion /\ ~prev.failed
    /\ pc = "summary" /\ end_kind = "completed"
    /\ frame_index = 2
    /\ skipped_frames = 1
    /\ Cardinality(processed_frames_set) = 1

\* C2: whenever run() has returned, after any sequence of fresh or resumed
\* runs that completed, were interrupted or ended by a pipeline error, the
\* frame names with a result file are the processed_frames of the checkpoint.
C2_ResultsMatchCheckpoint ==
    (pc = "idle" /\ end_kind \in {"completed", "interrupted", "error"})
        => ResultNames = load_checkpoint(checkpoint_file)

\* a run with resume=True that follows a killed process
RestartedAfterKill == resume /\ prev.end_kind = "killed"

\* the result file of frame name n was completely written by an earlier process
CompletedBefore(n) ==
    results[n].state = "complete" /\ results[n].written_in_run < run_no

\* C3: after a kill at any point of the frame loop and a restart with
\* resume=True, no frame whose result file was completely written before the
\* kill is sent to the annotation service again, and every frame the restarted
\* run passes over without processing had been completed before the kill.
C3_NoDuplicateWorkAfterKill ==
    [][RestartedAfterKill =>
        /\ (pc = "call_vlm" /\ attempts' = attempts + 1)
               => ~CompletedBefore(frame.name)
        /\ (pc = "loop" /\ pc' = "loop" /\ frame_index' = frame_index + 1)
               => CompletedBefore(Fetched.frame.name)]_vars

\* the annotation service answers by the frame alone and no write fails
Deterministic ==
    /\ ~io_faults
    /\ \A i \in DOMAIN answers : answers[i] # "any"

\* what one uninterrupted run without resume does to a frame of the source
Annotated(fr, pos) ==
    /\ process_images(fr)
    /\ validate_frame(fr)
    /\ config.max_retries >= 1
    /\ answers[pos] \in Responses \ {""}
    /\ parse_response(answers[pos]).kind = "dict"

\* the processed_frames set a single uninterrupted run without resume ends
\* with, frame by frame from raw position pos
RECURSIVE UninterruptedRun(_, _, _)
UninterruptedRun(pos, count, S) ==
    LET f == IterNext(dataset, sampling_interval(config.sampling_frequency_hz),
                      config.max_frames, pos, count)
    IN  IF f.kind # "frame" THEN S
        ELSE UninterruptedRun(f.index + 1, count + 1,
                 IF Annotated(f.frame, f.index + 1) THEN S \cup {f.frame.name}
                 ELSE S)

\* C4: with a per-frame deterministic outcome of extraction and annotation,
\* every run that reaches the end of the frame source, after any number of
\* interrupted or killed runs continued with resume, leaves the checkpoint
\* processed_frames set of a single uninterrupted run.
C4_ResumeEquivalence ==
    (Deterministic /\ pc = "idle" /\ end_kind = "completed")
        => load_checkpoint(checkpoint_file) = UninterruptedRun(0, 0, {})

\* the third run, resumed after an interrupted one, ends the frame source
\* having processed one frame itself and found the other in the checkpoint
C4_Witness ==
    /\ Deterministic
    /\ run_no = 3 /\ resume /\ prev.end_kind = "interrupted"
    /\ pc = "summary" /\ end_kind = "completed"
    /\ processed_frames = 1
    /\ Cardinality(processed_frames_set) = 2

\* C5: whatever step of save_checkpoint the process is killed at, the file at
\* the checkpoint path is absent or a complete checkpoint, never a partly
\* written one, and it changes only by the rename, to the complete new
\* checkpoint.
C5_CheckpointAtomic ==
    /\ [](checkpoint_file.state \in {"absent", "complete"})
    /\ [][checkpoint_file' # checkpoint_file =>
            /\ pc = "sc_rename"
            /\ checkpoint_file' = CheckpointOf(processed_frames_set)]_vars

\* a process was killed while the temporary file was partly written, with the
\* previous checkpoint in place
C5_Witness ==
    /\ pc = "idle" /\ end_kind = "killed"
    /\ temp_file.state = "partial"
    /\ checkpoint_file.state = "complete"
    /\ checkpoint_file.total_processed = 1

\* C6: when save_checkpoint(S) has returned, load_checkpoint() gives exactly S
\* and the stored total_processed is the size of S.
C6_CheckpointRoundTrip ==
    [][(pc = "sc_rename" /\ pc' \in {"loop", "summary"}) =>
        /\ load_checkpoint(checkpoint_file') = processed_frames_set
        /\ checkpoint_file'.total_processed = Cardinality(processed_frames_set)]_vars

\* a checkpoint of two frame names has been saved and reads back
C6_Witness ==
    /\ pc = "summary"
    /\ Cardinality(processed_frames_set) = 2
    /\ load_checkpoint(checkpoint_file) = processed_frames_set

\* C7: one call of call_vlm sends at most max_retries requests, for every
\* max_retries >= 0; while it is still trying no attempt has succeeded; a
\* returned text is the answer of its last attempt, every earlier one having
\* failed; and None is returned after exactly max_retries failed attempts.
C7_BoundedRetry ==
    /\ [](pc \in CallPcs =>
            /\ attempts <= config.max_retries
            /\ pc = "call_vlm" => response = None
            /\ (pc = "vlm_returned" /\ response = None)
                   => attempts = config.max_retries
            /\ (pc = "vlm_returned" /\ response # None)
                   => (response \in Responses /\ attempts = Len(waits) + 1))
    /\ [][(pc = "call_vlm" /\ response' \in Responses)
             => (pc' = "vlm_returned" /\ attempts' = attempts + 1
                 /\ waits' = waits)]_vars
    /\ [][pc = "vlm_returned"
             => (attempts' \in {attempts, 0} /\ waits' \in {waits, <<>>})]_vars

\* the largest retry budget is used up and None returned
C7_Witness ==
    /\ pc = "vlm_returned" /\ response = None
    /\ config.max_retries = MaxRetries
    /\ attempts = MaxRetries

\* C8: the k-th wait of a call (k from 0) is retry_delay_seconds * 2^k; a wait
\* follows every failed attempt but the last allowed one, so max_retries
\* failures make max_retries - 1 waits.
C8_BackoffSchedule ==
    pc \in CallPcs =>
        /\ \A i \in 1..Len(waits) :
               waits[i] = config.retry_delay_seconds * 2^(i - 1)
        /\ pc = "call_vlm" => Len(waits) = attempts
        /\ (pc = "vlm_returned" /\ response # None) => Len(waits) = attempts - 1
        /\ (pc = "vlm_returned" /\ response = None /\ config.max_retries > 0)
               => Len(waits) = config.max_retries - 1

\* three failures with base delay 2: waits of 2 and 4, then None
C8_Witness ==
    /\ pc = "vlm_returned" /\ response = None
    /\ config.max_retries = 3 /\ config.retry_delay_seconds = 2
    /\ waits = <<2, 4>>

\* the frame's x, y and z arrays differ in length, past or future
Mismatched(fr) ==
    \E t \in {fr.past, fr.future} : t[1] # t[2] \/ t[1] # t[3]

\* the frame's trajectories have not the expected numbers of points
WrongLength(fr) ==
    \/ fr.past[1] # expected_past_points
    \/ fr.future[1] # expected_future_points

\* C9: a frame in process with a wrong or mismatched trajectory length never
\* reaches call_vlm, save_result or the update of the processed set, and
\* process_frame ends for it with skipped_frames one higher and the other
\* counters, the result files and the processed set unchanged.
C9_ValidationStrict ==
    /\ []((frame # NoFrame /\ (Mismatched(frame) \/ WrongLength(frame)))
            => pc \notin CallPcs \cup SavePcs \cup {"ret_true"})
    /\ [][(/\ pc = "process"
           /\ Mismatched(frame) \/ WrongLength(frame)
           /\ pc' \notin {"process", "idle"}
           /\ ~finalizing') =>
            /\ skipped_frames' = skipped_frames + 1
            /\ processed_frames' = processed_frames
            /\ failed_frames' = failed_frames
            /\ results' = results
            /\ processed_frames_set' = processed_frames_set]_vars

\* a frame with all its images and 15 past points instead of 16 was skipped
C9_Witness ==
    /\ pc = "ckpt_check"
    /\ frame.images = FRONT_CAMERAS
    /\ frame.past = <<expected_past_points - 1, expected_past_points - 1,
                      expected_past_points - 1>>
    /\ skipped_frames = 1

\* inside process_frame
InProcessFrame == pc \in {"process"} \cup CallPcs \cup SavePcs

\* the number of frames the source yields from raw position pos on
RECURSIVE FramesOfSource(_, _)
FramesOfSource(pos, count) ==
    LET f == IterNext(dataset, sampling_interval(config.sampling_frequency_hz),
                      config.max_frames, pos, count)
    IN  IF f.kind # "frame" THEN 0
        ELSE 1 + FramesOfSource(f.index + 1, count + 1)

\* C10: a per-frame error (no images, invalid trajectories, a failed call, an
\* unusable response, an exception in process_frame) sends the loop on to the
\* checkpoint test and the next frame; the loop is left from inside
\* process_frame only by the operator's interrupt; and a run that ends with
\* the source exhausted has visited every frame of the source.
C10_ErrorIsolation ==
    /\ [][(InProcessFrame /\ finalizing') => end_kind' = "interrupted"]_vars
    /\ [][(InProcessFrame /\ (skipped_frames' = skipped_frames + 1
                              \/ failed_frames' = failed_frames + 1))
             => (pc' = "ckpt_check" /\ ~finalizing')]_vars
    /\ []((finalizing /\ end_kind = "completed")
             => frame_index = FramesOfSource(0, 0))

\* the first frame failed, the second was processed and the source ended
C10_Witness ==
    /\ pc = "summary" /\ end_kind = "completed"
    /\ ~resume
    /\ files[1] = <<Good(1), Good(2)>>
    /\ failed_frames = 1
    /\ processed_frames_set = {2}
    /\ frame_index = 2

\* a write of save_result has failed: the step leaves save_result neither by
\* its own progress nor by the operator's interrupt nor by a kill
SaveResultFailed ==
    /\ pc \in {"save_open", "save_write"}
    /\ pc' \notin {"save_write", "saved", "idle"}
    /\ end_kind' # "interrupted"

\* C11: a failed write of save_result ends the frame loop and is not counted
\* as a failed frame, and a run whose loop was ended by a failed write of
\* save_checkpoint does not return normally: the error leaves run().
C11_PersistenceFailuresFatal ==
    /\ [][SaveResultFailed =>
            (finalizing' /\ failed_frames' = failed_frames)]_vars
    /\ [](end_kind = "io_error" => pc # "idle")

\* C12: when no shard file matches the dataset path, no frame is processed,
\* no checkpoint and no summary are written, and the process ends with a
\* non-zero exit status.
C12_NoShardsFatal ==
    DOMAIN files = {} =>
        /\ frame = NoFrame
        /\ checkpoint_file = Absent
        /\ summary = Absent
        /\ (pc = "idle" /\ run_no > 0) => exit_code # 0

\* the raw records of the shard files P, the files in path order and each
\* file in stream order: position j + 1 holds the record of global index j
RECURSIVE InPathOrder(_)
InPathOrder(P) ==
    IF P = {} THEN <<>>
    ELSE LET first == CHOOSE p \in P : \A q \in P : p <= q
         IN  files[first] \o InPathOrder(P \ {first})

AllRecords == InPathOrder(DOMAIN files)

\* stride = source rate / target rate
Stride == SOURCE_RATE_HZ \div config.sampling_frequency_hz

\* the record of global index j is not for the loop: it is not sampled, or it
\* is sampled and cannot be decoded
PassedOver(j) == j % Stride # 0 \/ ~AllRecords[j + 1].decodable

\* C13: the record at global_index, one counter over all shards in path
\* order, is sampled iff global_index % stride = 0: the frame the loop is
\* given is at a multiple of the stride, no decodable record at a multiple of
\* the stride is left out before it, and none is left when the source ends.
C13_SamplingRule ==
    /\ [][(pc = "loop" /\ Len(visited') = Len(visited) + 1) =>
            LET i == visited'[Len(visited')]
            IN  /\ i % Stride = 0
                /\ \A j \in global_index..(i - 1) : PassedOver(j)
                /\ frame' # NoFrame => frame' = AllRecords[i + 1]]_vars
    /\ [][(pc = "loop" /\ end_kind' = "completed") =>
            \/ Truthy(config.max_frames) /\ frame_count >= config.max_frames
            \/ \A j \in global_index..(Len(AllRecords) - 1) : PassedOver(j)]_vars

\* three shard files of one record each at stride 2: the loop has been given
\* the records of global index 0 and 2, the first records of shards 1 and 3
C13_Witness ==
    /\ Cardinality(DOMAIN files) = 3
    /\ Stride = 2
    /\ pc = "process"
    /\ visited = <<0, 2>>
    /\ frame = files[3][1]

\* the ways the frame loop ends with run() going on to its finally block
LoopEnds == {"completed", "interrupted", "error", "io_error"}

\* the checkpoint on disk holds the in-memory processed set
CheckpointHoldsSet ==
    load_checkpoint(checkpoint_file') = processed_frames_set

\* the summary written is made of the counters
SummaryHoldsCounters ==
    summary' = SummaryOf(processed_frames + skipped_frames + failed_frames,
                         processed_frames, skipped_frames, failed_frames)

RECURSIVE SampledFrom(_)
SampledFrom(j) ==
    IF j >= Len(AllRecords) \/ Stride = 0 THEN <<>>
    ELSE (IF PassedOver(j) THEN <<>> ELSE <<j>>) \o SampledFrom(j + 1)

\* the order of visit the dataset and the configuration fix
VisitOrder ==
    LET all == SampledFrom(0)
    IN  IF Truthy(config.max_frames) /\ config.max_frames < Len(all)
        THEN SubSeq(all, 1, config.max_frames)
        ELSE all

\* C15: the loop is given frames in strictly increasing global_index order,
\* shards in path order and stream order inside a shard; the frames a run has
\* visited are always the first ones of the one order the dataset and the
\* configuration fix, and all of it when the source ends, so any two runs
\* visit the same sequence of frame names.
C15_DeterministicOrder ==
    /\ [](\A k \in 1..(Len(visited) - 1) : visited[k] < visited[k + 1])
    /\ [](/\ Len(visited) <= Len(VisitOrder)
          /\ \A k \in 1..Len(visited) : visited[k] = VisitOrder[k])
    /\ [](frame # NoFrame => frame = AllRecords[frame_pos])
    /\ [][(pc = "loop" /\ end_kind' = "completed") => visited = VisitOrder]_vars

\* a second run, after a completed one, over two shards at stride 2 has
\* visited global index 0 and 2, the frames named 2 and 1, as every run does
C15_Witness ==
    /\ run_no = 2 /\ prev.end_kind = "completed"
    /\ Cardinality(DOMAIN files) = 2
    /\ pc = "loop"
    /\ visited = <<0, 2>>
    /\ visited = VisitOrder
    /\ AllRecords[1].name = 2 /\ AllRecords[3].name = 1

\* C16: the file at the result path of a frame name is the complete result
\* save_result last wrote for that name, and when the process has ended,
\* killed at any step of save_result included, no result path holds a partly
\* written file.
C16_ResultWritesCrashSafe ==
    \A n \in Names :
        /\ results[n].state = "complete" => results[n].frame_name = n
        /\ pc = "idle" => results[n].state # "partial"

\* C17: when the attempts of a call fail with a fatal error, call_vlm makes
\* one attempt, returns the failure at once and waits for no backoff.
C17_FatalNotRetried ==
    (pc \in CallPcs /\ Answer = "fatal") =>
        /\ attempts <= 1
        /\ waits = <<>>

\* a frame is in flight: process_frame is running or has returned True and
\* the processed set is not yet updated
InFlight == InProcessFrame \/ pc = "ret_true"

\* C18: the operator's interrupt does not end the loop while a frame is in
\* flight (in the annotation call or a backoff wait, in save_result, before
\* the update of the processed set), so an interrupted run finalizes with
\* every result file it wrote named in its processed set.
C18_InterruptWaitsForFrame ==
    /\ [][InFlight => end_kind' # "interrupted"]_vars
    /\ []((pc = "summary" /\ end_kind = "interrupted") =>
            \A n \in Names :
                (results[n].state = "complete"
                 /\ results[n].written_in_run = run_no)
                    => n \in processed_frames_set)

\* C19: in every run the loop passes on from a visited frame whose
\* frame_index + 1 is a multiple of checkpoint_interval only through
\* save_checkpoint, whether the frame was processed, skipped, failed or
\* already in the checkpoint, and a checkpoint test that finds the checkpoint
\* due enters save_checkpoint.
C19_CheckpointCadence ==
    /\ [][(~finalizing /\ frame_index' = frame_index + 1 /\ CheckpointDue)
             => pc = "sc_rename"]_vars
    /\ [][(pc = "ckpt_check" /\ CheckpointDue /\ ~finalizing' /\ pc' # "idle")
             => pc' = "sc_open"]_vars

\* the loop of a run with resume=True is given a frame whose name is in the
\* processed set (the set loaded from the checkpoint and what the run added)
GivenKnownFrame ==
    /\ pc = "loop"
    /\ Fetched.kind = "frame"
    /\ resume /\ Fetched.frame.name \in processed_frames_set

\* the loop is given any other frame
GivenNewFrame ==
    /\ pc = "loop"
    /\ Fetched.kind = "frame"
    /\ ~(resume /\ Fetched.frame.name \in processed_frames_set)

\* the step is the loop's own: not an interrupt, not a kill
LoopGoesOn == pc' # "idle" /\ ~finalizing'

\* C20: in a run with resume=True a frame whose name is in the processed set
\* is not passed to process_frame: no request, no result file written, no
\* counter changed, frame_index one higher; no frame in process_frame has its
\* name in the set; and a frame whose name is not in the set is passed to
\* process_frame whatever its index.
C20_ResumeSkip ==
    /\ [][(GivenKnownFrame /\ LoopGoesOn) =>
            /\ pc' = "loop"
            /\ frame_index' = frame_index + 1
            /\ UNCHANGED <<counters, results, processed_frames_set, frame,
                           attempts>>]_vars
    /\ []((resume /\ InFlight) => frame.name \notin processed_frames_set)
    /\ [][(GivenNewFrame /\ LoopGoesOn) =>
            /\ pc' = "process"
            /\ frame' = Fetched.frame
            /\ frame_index' = frame_index]_vars

\* a resumed run has processed the frame at index 0 itself and passed over
\* the frame at index 1, whose result an earlier run wrote
C20_Witness ==
    /\ resume /\ pc = "loop"
    /\ visited = <<0, 1>> /\ frame_index = 2
    /\ processed_frames = 1 /\ skipped_frames = 0 /\ failed_frames = 0
    /\ AllRecords[1].name = 1 /\ AllRecords[2].name = 2
    /\ results[1].state = "complete" /\ results[1].written_in_run = run_no
    /\ results[2].state = "complete" /\ results[2].written_in_run < run_no

----------------------------------------------------------------------------
(* The processed set and the checkpoints of a run *)

\* run() sets up the processed set: the loaded checkpoint when resuming,
\* else the empty set
SetLoaded ==
    /\ pc = "idle" /\ pc' # "idle"
    /\ processed_frames_set' =
           IF resume' THEN load_checkpoint(checkpoint_file) ELSE {}

\* run() adds the name of the frame process_frame returned True for, whose
\* result file save_result has written in this run
SetGrowsByCompleted ==
    /\ pc = "ret_true"
    /\ results[frame.name] = ResultOf(frame.name, run_no)
    /\ processed_frames_set' = processed_frames_set \cup {frame.name}

\* C21: the processed set of a run is the set loaded at its start (empty
\* without resume) plus the names added after save_result for the frame
\* returned; every checkpoint the run writes holds exactly that set; and a
\* step that counts a frame as skipped or failed adds nothing to the set.
C21_CheckpointOnlyCompleted ==
    /\ [][(processed_frames_set' # processed_frames_set /\ pc' # "idle")
             => (SetLoaded \/ SetGrowsByCompleted)]_vars
    /\ [][checkpoint_file' # checkpoint_file
             => checkpoint_file' = CheckpointOf(processed_frames_set)]_vars
    /\ [][((skipped_frames' # skipped_frames \/ failed_frames' # failed_frames)
            /\ pc' # "idle")
             => processed_frames_set' = processed_frames_set]_vars

\* a resumed run has written a checkpoint with a name it loaded and a name it
\* added after writing the result
C21_Witness ==
    /\ resume /\ pc = "summary"
    /\ checkpoint_file = CheckpointOf({1, 2})
    /\ results[1].state = "complete" /\ results[1].written_in_run < run_no
    /\ results[2] = ResultOf(2, run_no)
    /\ processed_frames = 1

----------------------------------------------------------------------------
(* The response of the annotation service *)

\* process_frame holds a response text that parse_response does not return a
\* dict for
Rejected ==
    /\ pc = "vlm_returned"
    /\ response \notin {None, ""}
    /\ parse_response(response).kind # "dict"

\* the iterator gives every position of the source to the loop at most once
\* in a run
VisitedOnce ==
    \A i, j \in DOMAIN visited : i < j => visited[i] < visited[j]

\* C22: when the service has answered and parse_response rejects the text,
\* process_frame counts the frame as failed once, writes no result file, adds
\* nothing to the processed set and returns to the loop without another
\* request; the loop does not go back from the checkpoint test to the frame,
\* and the iterator does not give the frame again in this run.
C22_SchemaFailureNotRetried ==
    /\ [][(Rejected /\ LoopGoesOn) =>
            /\ failed_frames' = failed_frames + 1
            /\ processed_frames' = processed_frames
            /\ skipped_frames' = skipped_frames
            /\ results' = results
            /\ processed_frames_set' = processed_frames_set
            /\ attempts' = 0
            /\ pc' = "ckpt_check"]_vars
    /\ [][pc = "ckpt_check" => pc' \notin (CallPcs \cup {"process"})]_vars
    /\ []VisitedOnce

\* a frame whose answer lacks the explanation key has been counted as failed,
\* with no result file and an empty processed set
C22_Witness ==
    /\ pc = "ckpt_check"
    /\ answers = <<"no_explanation">>
    /\ failed_frames = 1 /\ processed_frames = 0 /\ skipped_frames = 0
    /\ results[frame.name] = Absent
    /\ processed_frames_set = {}

\* the enumerations of the response schema
SpeedEnum == {"keep", "accelerate", "decelerate", "other"}
CommandEnum ==
    {"straight", "yield", "left_turn", "right_turn", "lane_follow",
     "lane_change_left", "lane_change_right", "reverse", "other"}

\* the dict conforms to the response schema: all required object classes with
\* yes or no, an explanation, speed and command of their enumerations
SchemaConformant(dict) ==
    /\ HasKey(dict, "critical_objects")
    /\ HasKey(dict, "explanation")
    /\ HasKey(dict, "meta_behaviour")
    /\ Get(dict, "critical_objects").container
    /\ Get(dict, "critical_objects").classes = REQUIRED_OBJECTS
    /\ Get(dict, "critical_objects").values \subseteq {"yes", "no"}
    /\ Get(dict, "meta_behaviour").container
    /\ Get(dict, "meta_behaviour").speed \in SpeedEnum
    /\ Get(dict, "meta_behaviour").command \in CommandEnum

\* C23: parse_response returns a dict only for a response text whose JSON
\* object conforms to the response schema.
C23_SchemaValidationComplete ==
    (pc = "vlm_returned" /\ response \in Responses
     /\ parse_response(response).kind = "dict")
        => SchemaConformant(parse_response(response))

\* the text is commentary: no braces, no JSON
Commentary(text) == \A i \in 1..Len(text) : text[i] = "w"

\* C25: for a text made of commentary without braces, a schema-conformant
\* JSON object and more commentary, parse_response returns that object; for a
\* text in which no '{' comes before a '}' (none of the one, none of the other,
\* or the last '}' before the first '{') it returns None.
C25_JsonExtraction ==
    (pc = "vlm_returned" /\ response \in Responses) =>
        LET text == Text(response)
        IN  /\ \A i, j \in 1..Len(text) :
                (/\ i < j
                 /\ Commentary(SubSeq(text, 1, i - 1))
                 /\ Commentary(SubSeq(text, j + 1, Len(text)))
                 /\ json_loads(SubSeq(text, i, j)).kind = "dict"
                 /\ SchemaConformant(json_loads(SubSeq(text, i, j))))
                    => parse_response(response) = json_loads(SubSeq(text, i, j))
            /\ (\A i, j \in 1..Len(text) :
                    (text[i] = "{" /\ text[j] = "}") => j < i)
                    => parse_response(response) = ReturnsNone

\* a frame answered with a conformant object between commentary has its
\* result file
C25_Witness ==
    /\ answers = <<"commented">>
    /\ pc = "ckpt_check"
    /\ processed_frames = 1
    /\ results[1] = ResultOf(1, run_no)

----------------------------------------------------------------------------
(* Loading the checkpoint *)

\* the file has the shape save_checkpoint writes: a JSON object with the
\* list processed_frames
ExpectedShape(file) == file.state = "complete"

\* C24: a run with resume=True that finds no checkpoint file, or a file that
\* cannot be parsed or does not have the expected shape, starts with the
\* empty processed set at the first frame.
C24_UnreadableCheckpointEmpty ==
    [][(pc = "idle" /\ pc' # "idle" /\ resume'
        /\ ~ExpectedShape(checkpoint_file))
          => (processed_frames_set' = {}
              /\ frame_index' = 0 /\ global_index' = 0)]_vars

----------------------------------------------------------------------------
(* The counters *)

\* the frames counted by the three counters
Counted == processed_frames + skipped_frames + failed_frames

\* a step of a running process raises one counter by one and leaves the other
\* two, or leaves all three
OneCounterAtMost ==
    \/ UNCHANGED counters
    \/ /\ processed_frames' = processed_frames + 1
       /\ UNCHANGED <<skipped_frames, failed_frames>>
    \/ /\ skipped_frames' = skipped_frames + 1
       /\ UNCHANGED <<processed_frames, failed_frames>>
    \/ /\ failed_frames' = failed_frames + 1
       /\ UNCHANGED <<processed_frames, skipped_frames>>

\* process_frame is running and has not yet counted the frame
Uncounted == pc \in {"process"} \cup CallPcs \cup SavePcs

\* C26: every step of a run changes at most one counter, by one; process_frame
\* has counted every frame handed to it in exactly one counter when it is not
\* running (one frame is not yet counted while it runs); and the summary's
\* total_frames is the number of frames handed to process_frame.
C26_OneCounterPerFrame ==
    /\ [][pc' # "idle" => OneCounterAtMost]_vars
    /\ [](pc # "idle" =>
            Counted = IF Uncounted THEN handed - 1 ELSE handed)
    /\ [][(pc = "summary" /\ summary' # Absent)
             => summary'.total_frames = handed]_vars


\* the names the running process has added to the processed set: in a resumed
\* run a loaded name is passed over, so a name of the set whose result file
\* is of this run has been added by this run
AddedInRun ==
    { n \in processed_frames_set :
        results[n].state = "complete" /\ results[n].written_in_run = run_no }

\* C27: at the end of a run whose frame source was exhausted, the
\* processed_frames counter of the summary is the number of names the run
\* added to the processed set, and in a run without resume it is the
\* total_processed of the final checkpoint, whatever the frame names are.
C27_ProcessedCountMatchesCheckpoint ==
    [][(pc = "summary" /\ summary' # Absent /\ end_kind = "completed") =>
        /\ summary'.processed_frames = Cardinality(AddedInRun)
        /\ ~resume => summary'.processed_frames = checkpoint_file.total_processed]_vars


\* C28: while a process runs the processed set never loses a name; every
\* checkpoint it writes holds the set of that moment, so it holds every name
\* of the checkpoints the run wrote before; and in a resumed run every
\* checkpoint written holds every name of the checkpoint it replaces, the
\* loaded one included.
C28_CheckpointsGrow ==
    /\ [][(pc # "idle" /\ pc' # "idle")
             => processed_frames_set \subseteq processed_frames_set']_vars
    /\ [][checkpoint_file' # checkpoint_file
             => load_checkpoint(checkpoint_file') = processed_frames_set]_vars
    /\ [][(resume /\ checkpoint_file' # checkpoint_file)
             => load_checkpoint(checkpoint_file)
                    \subseteq load_checkpoint(checkpoint_file')]_vars
    /\ []((resume /\ pc # "idle")
             => load_checkpoint(checkpoint_file) \subseteq processed_frames_set)

\* a run has written a checkpoint after each of two frames, the second with
\* both names
C28_Witness ==
    /\ pc = "loop" /\ ~resume
    /\ config.checkpoint_interval = 1
    /\ frame_index = 2 /\ processed_frames = 2
    /\ processed_frames_set = {1, 2}
    /\ checkpoint_file = CheckpointOf({1, 2})

----------------------------------------------------------------------------
(* The frame limit and the sampling stride *)

\* C29: with a frame limit max_frames >= 0 the iterator gives the loop at
\* most max_frames frames in a run, frames passed over as already processed
\* included, and every frame passed to process_frame is one of the first
\* max_frames decodable sampled records of the source.
C29_FrameLimit ==
    config.max_frames >= 0 =>
        /\ frame_count <= config.max_frames
        /\ Len(visited) <= config.max_frames
        /\ InFlight =>
            \E k \in 1..config.max_frames :
                k <= Len(SampledFrom(0)) /\ SampledFrom(0)[k] = frame_pos - 1

\* C30: for a sampling frequency of 1 Hz or more the sampling interval is at
\* least 1, the iterator does not raise when there are shard files, and the
\* record of global index 0, when it can be decoded, is the first frame the
\* loop is given.
C30_StridePositive ==
    /\ [](config.sampling_frequency_hz >= 1
            => sampling_interval(config.sampling_frequency_hz) >= 1)
    /\ []((pc = "loop" /\ DOMAIN files # {}) => Fetched.kind # "error")
    /\ [][(visited = <<>> /\ visited' # <<>> /\ AllRecords[1].decodable)
             => visited'[1] = 0]_vars

====
